---- MODULE Spec2Model ----
(***************************************************************************)
(* Model of the Chebyshev filter of EleChASE (include/filter.hpp).         *)
(*                                                                         *)
(* One call of filter() is a sequential run over the program points of the *)
(* function body.  Reals are exact rationals <<num, den>>; the columns of  *)
(* V and W are symbolic terms that record every Hemm applied to them, so   *)
(* two columns are equal exactly when they were produced by the same       *)
(* sequence of multiplies, with the same coefficients and the same         *)
(* (shifted) operator, from the same entry data.                           *)
(***************************************************************************)
EXTENDS Integers, Sequences, FiniteSets, TLC

\* ----------------------------------------------------------------- bounds
MaxWidth == 3      \* largest block width passed to filter
MaxStart == 1      \* largest start column passed to filter
MaxDeg   == 4      \* largest deg passed to filter
MaxSched == 3      \* largest value stored in a degree schedule

\* V and W have Cols columns; start + width may exceed it by one.
Cols == MaxStart + MaxWidth - 1

\* #define SEARCH_NAN 1 : the scans under #ifdef SEARCH_NAN are compiled in.
SEARCH_NAN == TRUE

\* ------------------------------------------------------- exact rationals
Abs(x) == IF x < 0 THEN -x ELSE x

RECURSIVE GCD(_, _)
GCD(a, b) == IF b = 0 THEN a ELSE GCD(b, a % b)

RNorm(n, d) ==
  LET s == IF d < 0 THEN -1 ELSE 1
      g == GCD(Abs(n), Abs(d))
  IN  <<(s * n) \div g, (s * d) \div g>>

RInt(n)    == <<n, 1>>
RNeg(a)    == <<-a[1], a[2]>>
RAdd(a, b) == RNorm(a[1] * b[2] + b[1] * a[2], a[2] * b[2])
RSub(a, b) == RAdd(a, RNeg(b))
RMul(a, b) ==
  LET x == RNorm(a[1], b[2])
      y == RNorm(b[1], a[2])
  IN  RNorm(x[1] * y[1], x[2] * y[2])
RDiv(a, b) == RMul(a, RNorm(b[2], b[1]))

\* ------------------------------------------------------ call parameters
\* <<lower, upper, lambda>> with lambda # (upper + lower)/2
SpectralInputs == { <<0, 4, 10>> }

\* diagonal of the N x N operator A on entry (N = 2)
DiagInputs == { <<3, -1>> }

ColIdx == 0 .. (Cols - 1)

SeqsUpTo(S, n) == UNION { [1 .. m -> S] : m \in 0 .. n }

\* entry contents of the two vector blocks: one symbol per column
V0 == [k \in ColIdx |-> <<"V", k>>]
W0 == [k \in ColIdx |-> <<"W", k>>]

VARIABLES
  in,        \* the arguments of the call, as passed by the caller
  pc,        \* program point inside filter
  A,         \* diagonal of the operator
  T,         \* saved diagonal (auto T = GetDiagonal(A))
  V, W,      \* the two vector blocks, column index -> term
  start, width,
  degmax, j, i,
  local_vcts_filtered, total_vcts_filtered,
  sigma, alpha, beta,
  nanV, nanW, nanA,   \* isnan(EntrywiseNorm(X, 1)) for X = V, W, A
  ret        \* value returned

vars == <<in, pc, A, T, V, W, start, width, degmax, j, i,
          local_vcts_filtered, total_vcts_filtered, sigma, alpha, beta,
          nanV, nanW, nanA, ret>>

deglen == Len(in.degrees)

\* Real c = (upper + lower)/2;  Real e = (upper - lower)/2;
c == RDiv(RInt(in.spectral[2] + in.spectral[1]), RInt(2))
e == RDiv(RInt(in.spectral[2] - in.spectral[1]), RInt(2))
\* Real sigma_scale = e/(lambda - c);
sigma_scale == RDiv(e, RSub(RInt(in.spectral[3]), c))

\* ----------------------------------------------- linear-algebra helpers
\* ShiftDiagonal(A, s): every diagonal entry += s
ShiftDiagonal(M, s) == [r \in DOMAIN M |-> RAdd(M[r], s)]

\* SetDiagonal(A, T): the diagonal of A becomes T
SetDiagonal_omitted(M, D) == M
SetDiagonal(M, D) == D

\* one column of Hemm(LEFT, uplo, al, A, B, be, C): C := al*A*B + be*C
Hemm(al, M, src, be, dst) == <<al, M, src, be, dst>>

\* Hemm on the views [start, start+width) of Src and Dst; returns Dst
HemmView(al, M, Src, be, Dst, s, w) ==
  [k \in DOMAIN Dst |->
     IF s <= k /\ k < s + w THEN Hemm(al, M, Src[k], be, Dst[k]) ELSE Dst[k]]

\* W_view = V_view on the views [s, s+w): returns the new destination block
CopyView(Src, Dst, s, w) ==
  [k \in DOMAIN Dst |-> IF s <= k /\ k < s + w THEN Src[k] ELSE Dst[k]]

\* ------------------------------------------------------ scalar helpers
\* degmax = deg; if (degrees != NULL) degmax = max(deg, degrees[deglen-1])
DegMax(deg, hasDegrees, last) ==
  IF hasDegrees THEN (IF deg >= last THEN deg ELSE last) ELSE deg

\* if (degmax == 0) return total_vcts_filtered;
EarlyReturn_missing(dm) == FALSE
EarlyReturn(dm) == dm = 0

\* while (j < deglen && degrees[j] == d) ++j;   (degrees is 0-based in C)
ScanWhile_once(degs, jj, d) ==
  IF jj < Len(degs) /\ degs[jj + 1] = d THEN jj + 1 ELSE jj
RECURSIVE ScanWhile(_, _, _)
ScanWhile(degs, jj, d) ==
  IF jj < Len(degs) /\ degs[jj + 1] = d THEN ScanWhile(degs, jj + 1, d) ELSE jj

\* total_vcts_filtered += width;
AddWidth_countcalls(tot, w) == tot + 1
AddWidth(tot, w) == tot + w

\* width -= local_vcts_filtered;
SubWidth_forgotten(w, n) == w
SubWidth(w, n) == w - n

\* if (i%2 == 0) read W, write V; else read V, write W
SrcIsW_flipped(ii) == ii % 2 = 1
SrcIsW(ii) == ii % 2 = 0

\* if (i%2 == 0 && local_vcts_filtered > 0): copy the deflated columns
NeedCopy_flipped(ii, n) == ii % 2 = 1 /\ n > 0
NeedCopy(ii, n) == ii % 2 = 0 /\ n > 0

\* sigma_new = 1.0/(2.0/sigma_scale - sigma);
SigmaNew(sc, sg) == RDiv(RInt(1), RSub(RDiv(RInt(2), sc), sg))
\* alpha = 2.0*sigma_new / e;
AlphaOf(sn, ee) == RDiv(RMul(RInt(2), sn), ee)
\* beta = -sigma*sigma_new;
BetaOf(sg, sn) == RMul(RNeg(sg), sn)

\* fail == 1 after the three isnan tests
NanFound(nv, nw, na) == SEARCH_NAN /\ (nv \/ nw \/ na)

\* ------------------------------------------------------------------ Init
\* which of V, W, A holds a NaN on entry: none, or one of them
NanInputs == { <<FALSE, FALSE, FALSE>>, <<TRUE, FALSE, FALSE>>,
               <<FALSE, TRUE, FALSE>>, <<FALSE, FALSE, TRUE>> }

\* a schedule is absent (degrees = NULL) or an array of deglen <= width values
Schedules(w) ==
  { <<FALSE, <<>>>> } \cup { <<TRUE, ds>> : ds \in SeqsUpTo(0 .. MaxSched, w) }

Init ==
  /\ \E s \in 0 .. MaxStart, w \in 0 .. MaxWidth, d \in 0 .. MaxDeg,
        sp \in SpectralInputs, dg \in DiagInputs :
        \E sc \in Schedules(w) :
          in = [start |-> s, width |-> w, deg |-> d,
                hasDegrees |-> sc[1], degrees |-> sc[2], spectral |-> sp,
                Adiag |-> [r \in DOMAIN dg |-> RInt(dg[r])]]
  /\ pc = "call"
  /\ A = in.Adiag
  /\ T = <<>>
  /\ V = V0
  /\ W = W0
  /\ start = in.start
  /\ width = in.width
  /\ degmax = 0
  /\ j = 0
  /\ i = 0
  /\ local_vcts_filtered = 0
  /\ total_vcts_filtered = 0
  /\ sigma = RInt(0)
  /\ alpha = RInt(0)
  /\ beta = RInt(0)
  /\ \E n \in NanInputs : nanV = n[1] /\ nanW = n[2] /\ nanA = n[3]
  /\ ret = -1

\* --------------------------------------------------------------- actions
\* lines 66-86: locals, degmax, the degmax == 0 return.
\* degrees[deglen-1] with deglen = 0 reads outside the array: any value.
Enter ==
  /\ pc = "call"
  /\ \E g \in (IF deglen = 0 THEN 0 .. MaxSched ELSE {in.degrees[deglen]}) :
       degmax' = DegMax(in.deg, in.hasDegrees, g)
  /\ sigma' = sigma_scale
  /\ total_vcts_filtered' = 0
  /\ local_vcts_filtered' = 0
  /\ j' = 0
  /\ IF EarlyReturn(degmax')
       THEN pc' = "returned" /\ ret' = total_vcts_filtered'
       ELSE pc' = "shift" /\ ret' = ret
  /\ UNCHANGED <<in, A, T, V, W, start, width, i, alpha, beta,
                 nanV, nanW, nanA>>

\* lines 88-93: T = GetDiagonal(A); ShiftDiagonal(A, -c); alpha, beta
ShiftA ==
  /\ pc = "shift"
  /\ T' = A
  /\ A' = ShiftDiagonal(A, RNeg(c))
  /\ alpha' = RDiv(sigma_scale, e)
  /\ beta' = RInt(0)
  /\ pc' = "assert"
  /\ UNCHANGED <<in, V, W, start, width, degmax, j, i, local_vcts_filtered,
                 total_vcts_filtered, sigma, nanV, nanW, nanA, ret>>

\* lines 95-99: AssertValidSubmatrix on V and W, then the two views
AssertValid ==
  /\ pc = "assert"
  /\ pc' = IF start + width > Cols THEN "thrown" ELSE "scan1"
  /\ UNCHANGED <<in, A, T, V, W, start, width, degmax, j, i,
                 local_vcts_filtered, total_vcts_filtered, sigma, alpha, beta,
                 nanV, nanW, nanA, ret>>

\* lines 101-124: scan before the first multiply; exit(1) on a NaN norm
Scan1 ==
  /\ pc = "scan1"
  /\ pc' = IF NanFound(nanV, nanW, nanA) THEN "exited" ELSE "hemm1"
  /\ UNCHANGED <<in, A, T, V, W, start, width, degmax, j, i,
                 local_vcts_filtered, total_vcts_filtered, sigma, alpha, beta,
                 nanV, nanW, nanA, ret>>

\* line 127: Hemm(LEFT, uplo, alpha, A, V_view, beta, W_view).
\* The product may overflow to a NaN in W when at least one column is written.
FirstStep ==
  /\ pc = "hemm1"
  /\ W' = HemmView(alpha, A, V, beta, W, start, width)
  /\ nanW' \in (IF width > 0 THEN BOOLEAN ELSE {nanW})
  /\ pc' = "scan2"
  /\ UNCHANGED <<in, A, T, V, start, width, degmax, j, i,
                 local_vcts_filtered, total_vcts_filtered, sigma, alpha, beta,
                 nanV, nanA, ret>>

\* lines 130-157: scan after the first multiply, then total += width
Scan2 ==
  /\ pc = "scan2"
  /\ IF NanFound(nanV, nanW, nanA)
       THEN pc' = "exited" /\ total_vcts_filtered' = total_vcts_filtered
       ELSE /\ pc' = "deflate1"
            /\ total_vcts_filtered' = AddWidth(total_vcts_filtered, width)
  /\ UNCHANGED <<in, A, T, V, W, start, width, degmax, j, i,
                 local_vcts_filtered, sigma, alpha, beta,
                 nanV, nanW, nanA, ret>>

\* lines 159-166: the columns with degree 1 are done; int i = 2
DeflateFirst ==
  /\ pc = "deflate1"
  /\ IF in.hasDegrees
       THEN /\ j' = ScanWhile(in.degrees, j, 1)
            /\ local_vcts_filtered' = j'
            /\ width' = SubWidth(width, j')
            /\ start' = start + j'
       ELSE UNCHANGED <<j, local_vcts_filtered, width, start>>
  /\ i' = 2
  /\ pc' = "loop"
  /\ UNCHANGED <<in, A, T, V, W, degmax, total_vcts_filtered, sigma, alpha,
                 beta, nanV, nanW, nanA, ret>>

\* lines 169-194: loop test true; coefficients, views, multiply, accounting
LoopMul ==
  /\ pc = "loop"
  /\ i <= degmax
  /\ LET sigma_new == SigmaNew(sigma_scale, sigma)
         al == AlphaOf(sigma_new, e)
         be == BetaOf(sigma, sigma_new)
     IN  /\ alpha' = al
         /\ beta' = be
         /\ IF SrcIsW(i)
              THEN /\ V' = HemmView(al, A, W, be, V, start, width)
                   /\ W' = W
              ELSE /\ W' = HemmView(al, A, V, be, W, start, width)
                   /\ V' = V
         /\ sigma' = sigma_new
  /\ total_vcts_filtered' = AddWidth(total_vcts_filtered, width)
  /\ pc' = "deflate"
  /\ UNCHANGED <<in, A, T, start, width, degmax, j, i, local_vcts_filtered,
                 nanV, nanW, nanA, ret>>

\* lines 196-214: the columns with degree i are done; ++i
LoopDeflate ==
  /\ pc = "deflate"
  /\ IF in.hasDegrees
       THEN LET jn == ScanWhile(in.degrees, j, i)
                n  == jn - j
            IN  /\ j' = jn
                /\ local_vcts_filtered' = n
                /\ width' = SubWidth(width, n)
                /\ W' = IF NeedCopy(i, n) THEN CopyView(V, W, start, n) ELSE W
                /\ start' = start + n
       ELSE UNCHANGED <<j, local_vcts_filtered, width, W, start>>
  /\ i' = i + 1
  /\ pc' = "loop"
  /\ UNCHANGED <<in, A, T, V, degmax, total_vcts_filtered, sigma, alpha, beta,
                 nanV, nanW, nanA, ret>>

\* line 169: loop test false
LoopExit ==
  /\ pc = "loop"
  /\ i > degmax
  /\ pc' = "final"
  /\ UNCHANGED <<in, A, T, V, W, start, width, degmax, j, i,
                 local_vcts_filtered, total_vcts_filtered, sigma, alpha, beta,
                 nanV, nanW, nanA, ret>>

\* lines 216-222: if degmax is even the active columns are copied V -> W
FinalCopy ==
  /\ pc = "final"
  /\ W' = IF degmax % 2 = 0 THEN CopyView(V, W, start, width) ELSE W
  /\ pc' = "restore"
  /\ UNCHANGED <<in, A, T, V, start, width, degmax, j, i,
                 local_vcts_filtered, total_vcts_filtered, sigma, alpha, beta,
                 nanV, nanW, nanA, ret>>

\* lines 224-228: SetDiagonal(A, T); return total_vcts_filtered
RestoreAndReturn ==
  /\ pc = "restore"
  /\ A' = SetDiagonal(A, T)
  /\ ret' = total_vcts_filtered
  /\ pc' = "returned"
  /\ UNCHANGED <<in, T, V, W, start, width, degmax, j, i,
                 local_vcts_filtered, total_vcts_filtered, sigma, alpha, beta,
                 nanV, nanW, nanA>>

Next ==
  \/ Enter
  \/ ShiftA
  \/ AssertValid
  \/ Scan1
  \/ FirstStep
  \/ Scan2
  \/ DeflateFirst
  \/ LoopMul
  \/ LoopDeflate
  \/ LoopExit
  \/ FinalCopy
  \/ RestoreAndReturn

Spec == Init /\ [][Next]_vars

\* ------------------------------------------------ preconditions of a call
InRange == in.start + in.width <= Cols

Ascending(ds) == \A a, b \in DOMAIN ds : a < b => ds[a] <= ds[b]
Positive(ds)  == \A a \in DOMAIN ds : ds[a] >= 1

\* a schedule that is sorted ascending, positive and aligned with the columns
ValidSchedule ==
  in.hasDegrees /\ deglen = in.width /\ Ascending(in.degrees) /\ Positive(in.degrees)

ValidInput == InRange /\ (in.hasDegrees => ValidSchedule)

EntryCols == { k \in ColIdx : in.start <= k /\ k < in.start + in.width }
ActiveCols == { k \in ColIdx : start <= k /\ k < start + width }

\* schedule value of column k (only used when a schedule is supplied)
SchedOf(k) == in.degrees[k - in.start + 1]

Min(a, b) == IF a <= b THEN a ELSE b

RECURSIVE SumSeq(_)
SumSeq(ds) == IF ds = <<>> THEN 0 ELSE Head(ds) + SumSeq(Tail(ds))

\* ------------------------------------------- the single-column reference
\* the operator every multiply of the call sees: A - cI
Ac == ShiftDiagonal(in.Adiag, RNeg(c))

\* W of column k after a separate call with degrees = NULL, width = 1, deg = d
RECURSIVE SingleLoop(_, _, _, _, _)
SingleLoop(ii, d, v, w, sg) ==
  IF ii > d
    THEN (IF d % 2 = 0 THEN v ELSE w)
    ELSE LET sn == SigmaNew(sigma_scale, sg)
             al == AlphaOf(sn, e)
             be == BetaOf(sg, sn)
         IN  IF ii % 2 = 0
               THEN SingleLoop(ii + 1, d, Hemm(al, Ac, w, be, v), w, sn)
               ELSE SingleLoop(ii + 1, d, v, Hemm(al, Ac, v, be, w), sn)

SingleCall(d, k) ==
  IF d = 0
    THEN W0[k]
    ELSE SingleLoop(2, d, V0[k],
                    Hemm(RDiv(sigma_scale, e), Ac, V0[k], RInt(0), W0[k]),
                    sigma_scale)

\* the three-term recurrence: x_0 = v, x_1 = a1 (A-cI) v,
\* x_n = alpha_n (A-cI) x_(n-1) + beta_n x_(n-2)
RECURSIVE SigmaAt(_)
SigmaAt(n) == IF n <= 1 THEN sigma_scale ELSE SigmaNew(sigma_scale, SigmaAt(n - 1))

RECURSIVE Iterate(_, _)
Iterate(n, k) ==
  IF n = 0 THEN V0[k]
  ELSE IF n = 1 THEN Hemm(RDiv(sigma_scale, e), Ac, V0[k], RInt(0), W0[k])
  ELSE Hemm(AlphaOf(SigmaAt(n), e), Ac, Iterate(n - 1, k),
            BetaOf(SigmaAt(n - 1), SigmaAt(n)), Iterate(n - 2, k))

\* ------------------------------------------------------------------ claims

C2_DiagonalRestored ==
  /\ pc \in {"call", "shift", "returned"} => A = in.Adiag
  /\ pc \in {"assert", "scan1", "hemm1", "scan2", "deflate1", "loop",
             "deflate", "final", "restore"}
        => (A = ShiftDiagonal(in.Adiag, RNeg(c)) /\ T = in.Adiag)

\* a returned call that did shift A by a non-zero c
C2_Witness ==
  /\ pc = "returned"
  /\ degmax >= 1
  /\ c # RInt(0)
  /\ T = in.Adiag
  /\ A = in.Adiag
  /\ A # ShiftDiagonal(in.Adiag, RNeg(c))

\* C3: with degrees = NULL the active width never changes, degmax = deg, and
\* the value returned is width * deg.
C3_NullScheduleCost ==
  (~in.hasDegrees /\ InRange) =>
    /\ width = in.width
    /\ pc # "call" => degmax = in.deg
    /\ pc = "returned" => ret = in.width * in.deg

C3_Witness ==
  /\ pc = "returned"
  /\ ~in.hasDegrees
  /\ in.width = 2
  /\ in.deg = 3
  /\ ret = 6

\* C4: with a schedule, column k is filtered with degree
\* min(degrees[k], deg): on return W holds the iterate of that degree.
C4_MinDegree ==
  (pc = "returned" /\ ValidInput /\ in.hasDegrees) =>
    \A k \in EntryCols : W[k] = SingleCall(Min(SchedOf(k), in.deg), k)

\* C5: when the maximum degree is 0 the call goes from entry straight to the
\* return: it returns 0 and A, V and W are as on entry.
C5_ZeroDegreeNoOp ==
  (pc # "call" /\ degmax = 0) =>
    /\ pc = "returned"
    /\ ret = 0
    /\ total_vcts_filtered = 0
    /\ A = in.Adiag
    /\ T = <<>>
    /\ V = V0
    /\ W = W0

\* both shapes of the case: no schedule, and a schedule whose largest value is 0
C5_Witness ==
  /\ pc = "returned"
  /\ degmax = 0
  /\ in.hasDegrees
  /\ deglen >= 1
  /\ in.width >= 1
  /\ ret = 0

\* C6: with a valid schedule every step leaves the active width no larger
\* and never negative; it becomes 0 in the deflation step that passes the
\* last schedule entry, and it is 0 when the loop ends.
C6_WidthShrinks ==
  [][ (ValidSchedule /\ InRange) =>
        /\ width' <= width
        /\ width' >= 0
        /\ (pc' \in {"loop", "final", "restore", "returned"}
              => (width' = 0 <=> j' = deglen))
        /\ (width > 0 /\ width' = 0)
              => (pc \in {"deflate1", "deflate"} /\ j < deglen /\ j' = deglen
                  /\ in.degrees[deglen] = (IF pc = "deflate1" THEN 1 ELSE i)
                  /\ in.degrees[deglen] <= degmax)
        /\ pc' = "final" => width' = 0 ]_vars

\* three columns gone while iterations remain
C6_Witness ==
  /\ ValidSchedule
  /\ InRange
  /\ in.width = 3
  /\ in.degrees = <<1, 2, 2>>
  /\ pc = "loop"
  /\ i = 3
  /\ i <= degmax
  /\ width = 0

\* C7: a call with an unsorted schedule or a column range outside V and W
\* never returns normally with a cost metric and a W computed from it.
C7_MalformedRejected ==
  (pc = "returned" /\ ret > 0 /\ W # W0)
     => (InRange /\ (in.hasDegrees => Ascending(in.degrees)))

\* C8: in the configuration as shipped a call never terminates the process.
C8_NeverExits == pc # "exited"

\* C9: when the multiply of iteration i is about to be issued, every active
\* column has its degree i-1 iterate in the source buffer and its degree i-2
\* iterate in the destination buffer.
C9_DoubleBuffer ==
  (pc = "loop" /\ i <= degmax /\ InRange) =>
    \A k \in ActiveCols :
      /\ (IF i % 2 = 0 THEN W[k] ELSE V[k]) = Iterate(i - 1, k)
      /\ (IF i % 2 = 0 THEN V[k] ELSE W[k]) = Iterate(i - 2, k)

\* an odd iteration reached after a column deflated at the even step before it
C9_Witness ==
  /\ pc = "loop"
  /\ i = 3
  /\ i <= degmax
  /\ in.degrees = <<2, 3>>
  /\ in.width = 2
  /\ InRange
  /\ width = 1
  /\ W[in.start] = Iterate(2, in.start)
  /\ V[start] = Iterate(2, start)
  /\ W[start] = Iterate(1, start)

====
